---------------------------- MODULE Spec2Model ----------------------------
(***************************************************************************)
(* go-npm (src/src/index.js): the install / uninstall helper that fetches  *)
(* a prebuilt binary archive, extracts it into a staging directory and     *)
(* moves the binary into npm's bin directory.                              *)
(*                                                                         *)
(* JavaScript strings are sequences of atoms (indivisible pieces of text); *)
(* undefined and null are the sentinels Undefined and Null.  A path is a   *)
(* sequence of segments.  The process is a state machine: the synchronous  *)
(* run of the script (Main) followed by the callbacks node delivers.       *)
(***************************************************************************)
EXTENDS Integers, Sequences, FiniteSets, TLC

\* ------------------------------------------------------------------ values

Undefined == <<"<undefined>">>
Null == <<"<null>">>

\* JavaScript truthiness of a string-or-undefined-or-null value.
Truthy(v) == v # Undefined /\ v # Null /\ v # <<>>

\* Number of entries an archive holds at most.
MaxEntries == 2

\* ------------------------------------------------------ platform mapping

ARCH_MAPPING ==
    [a \in {"ia32", "x64", "arm", "arm64"} |->
        CASE a = "ia32" -> "386"
          [] a = "x64" -> "amd64"
          [] a = "arm" -> "armv6"
          [] a = "arm64" -> "arm64"]

PLATFORM_MAPPING ==
    [p \in {"darwin", "linux", "win32", "freebsd"} |->
        CASE p = "darwin" -> "darwin"
          [] p = "linux" -> "linux"
          [] p = "win32" -> "windows"
          [] p = "freebsd" -> "freebsd"]

\* Both tables are object literals, so they inherit Object.prototype: the
\* names every such object answers to besides its own keys.
ObjectPrototypeKeys ==
    {"constructor", "toString", "toLocaleString", "valueOf", "hasOwnProperty",
     "isPrototypeOf", "propertyIsEnumerable", "__proto__"}

\* JavaScript's `key in object` for an object literal: own keys and inherited.
In(key, mapping) == key \in DOMAIN mapping \/ key \in ObjectPrototypeKeys

\* What url.replace(/token/g, mapping[key]) puts in place of one match.  An
\* own key gives its string.  "constructor" gives the function Object, which
\* replace calls as a replacer: Object(match) converts back to the match.
\* "toString" gives Object.prototype.toString, called with no receiver.
Replacement(mapping, key, token) ==
    IF key \in DOMAIN mapping THEN <<mapping[key]>>
    ELSE IF key = "toString" THEN <<"[object Undefined]">>
    ELSE token

\* ----------------------------------------------------------- string tools

\* The text of a placeholder as the four regular expressions of lines
\* 143-146 read it: two opening braces, the name, two closing braces.
Token(name) == <<"{", "{", name, "}", "}">>

RECURSIVE Expand(_, _)
\* What replace inserts for one match when the replacement is the string by:
\* "$$" stands for a dollar sign and "$&" for the matched text.
Expand(by, match) ==
    IF by = <<>> THEN <<>>
    ELSE (IF Head(by) = "$&" THEN match
          ELSE IF Head(by) = "$$" THEN <<"$">>
          ELSE <<Head(by)>>) \o Expand(Tail(by), match)

\* The replacement applied to only the first match.
ReplaceAll_first(s, token, by) ==
    IF \E i \in 1..(Len(s) - Len(token) + 1) :
          SubSeq(s, i, i + Len(token) - 1) = token
    THEN LET i == CHOOSE x \in 1..(Len(s) - Len(token) + 1) :
                    /\ SubSeq(s, x, x + Len(token) - 1) = token
                    /\ \A y \in 1..(x - 1) : SubSeq(s, y, y + Len(token) - 1) # token
         IN  SubSeq(s, 1, i - 1) \o Expand(by, token)
                 \o SubSeq(s, i + Len(token), Len(s))
    ELSE s

RECURSIVE ReplaceAll(_, _, _)
\* s.replace(/token/g, by): the string is scanned from the left, every match
\* of token is replaced and the scan goes on after the match; what was
\* inserted is not scanned again.
ReplaceAll(s, token, by) ==
    IF Len(s) < Len(token) THEN s
    ELSE IF SubSeq(s, 1, Len(token)) = token
    THEN Expand(by, token)
             \o ReplaceAll(SubSeq(s, Len(token) + 1, Len(s)), token, by)
    ELSE <<Head(s)>> \o ReplaceAll(Tail(s), token, by)

RECURSIVE ReplaceFirst(_, _, _)
\* s.replace(token, by) with a string pattern: the first occurrence only.
ReplaceFirst(s, token, by) ==
    IF s = <<>> THEN <<>>
    ELSE IF Head(s) = token THEN by \o Tail(s)
    ELSE <<Head(s)>> \o ReplaceFirst(Tail(s), token, by)

endsWith(s, suffix) == Len(s) > 0 /\ s[Len(s)] = suffix


Whitespace == {"\n", " "}

RECURSIVE TrimLeft(_)
TrimLeft(s) ==
    IF s # <<>> /\ Head(s) \in Whitespace THEN TrimLeft(Tail(s)) ELSE s

RECURSIVE TrimRight(_)
TrimRight(s) ==
    IF s # <<>> /\ s[Len(s)] \in Whitespace
    THEN TrimRight(SubSeq(s, 1, Len(s) - 1)) ELSE s

\* stdout.trim()
trim(s) == TrimRight(TrimLeft(s))

\* dir.replace(/node_modules.*\/\.bin/, 'node_modules/.bin') on a path given
\* as its segments: from the first node_modules segment to the last .bin
\* segment after it (the .* is greedy), replaced by node_modules/.bin.
normalizeBinDir(dir) ==
    LET starts == {i \in 1..Len(dir) : dir[i] = "node_modules"}
        ends == {j \in 1..Len(dir) : dir[j] = ".bin"}
    IN  IF starts = {} THEN dir
        ELSE LET i == CHOOSE x \in starts : \A y \in starts : x <= y
                 after == {j \in ends : j > i}
             IN  IF after = {} THEN dir
                 ELSE LET j == CHOOSE x \in after : \A y \in after : y <= x
                      IN  SubSeq(dir, 1, i - 1) \o <<"node_modules", ".bin">>
                              \o SubSeq(dir, j + 1, Len(dir))

\* ------------------------------------------------------------- the manifest

\* typeof of the goBinary value; typeof null is "object".
typeof(g) == IF g.t = "null" THEN "object" ELSE g.t

\* !g for the goBinary value.
Falsy(g) == g.t \in {"undefined", "null"}

\* The validator as it would be with the path check before the name check.
validateConfiguration_pathFirst(packageJson) ==
    IF ~Truthy(packageJson.version)
    THEN <<"'version' property must be specified">>
    ELSE IF Falsy(packageJson.goBinary) \/ typeof(packageJson.goBinary) # "object"
    THEN <<"'goBinary' property must be defined and be an object">>
    ELSE IF ~Truthy(packageJson.goBinary.path)
    THEN <<"'path' property is necessary">>
    ELSE IF ~Truthy(packageJson.goBinary.name)
    THEN <<"'name' property is necessary">>
    ELSE IF ~Truthy(packageJson.goBinary.url)
    THEN <<"'url' property is required">>
    ELSE Undefined

validateConfiguration(packageJson) ==
    IF ~Truthy(packageJson.version)
    THEN <<"'version' property must be specified">>
    ELSE IF Falsy(packageJson.goBinary) \/ typeof(packageJson.goBinary) # "object"
    THEN <<"'goBinary' property must be defined and be an object">>
    ELSE IF ~Truthy(packageJson.goBinary.name)
    THEN <<"'name' property is necessary">>
    ELSE IF ~Truthy(packageJson.goBinary.path)
    THEN <<"'path' property is necessary">>
    ELSE IF ~Truthy(packageJson.goBinary.url)
    THEN <<"'url' property is required">>
    ELSE Undefined

\* The value parsePackageJson returns when it returns nothing.
NoOpts ==
    [binName |-> Undefined, binPath |-> Undefined, url |-> Undefined,
     version |-> Undefined]

\* `key in mapping` as parsePackageJson asks it of both tables.
supported(key, mapping) == In(key, mapping)

\* Lines 126-153: the resolved install spec of a validated manifest.
resolve(arch, platform, packageJson) ==
    LET binName0 == packageJson.goBinary.name
        url0 == packageJson.goBinary.url
        version0 == packageJson.version
        version == IF Head(version0) = "v" THEN Tail(version0) ELSE version0
        win == platform = "win32"
        binName == IF win THEN binName0 \o <<".exe">> ELSE binName0
        url1 == IF win /\ endsWith(url0, ".tar.gz")
                THEN ReplaceFirst(url0, ".tar.gz", <<".zip">>) ELSE url0
        url2 == ReplaceAll(url1, Token("arch"),
                           Replacement(ARCH_MAPPING, arch, Token("arch")))
        url3 == ReplaceAll(url2, Token("platform"),
                           Replacement(PLATFORM_MAPPING, platform, Token("platform")))
        url4 == ReplaceAll(url3, Token("version"), version)
        url5 == ReplaceAll(url4, Token("bin_name"), binName)
    IN  [binName |-> binName, binPath |-> packageJson.goBinary.path,
         url |-> url5, version |-> version]

\* parsePackageJson: what it returns (ret), what it prints with console.error
\* (log) and which error of the taxonomy it met (err, "" for none).
parsePackageJson(arch, platform, hasPackageJson, packageJson) ==
    IF ~supported(arch, ARCH_MAPPING)
    THEN [ret |-> NoOpts, err |-> "UnsupportedArchitecture",
          log |-> <<<<"Installation is not supported for this architecture: ", arch>>>>]
    ELSE IF ~supported(platform, PLATFORM_MAPPING)
    THEN [ret |-> NoOpts, err |-> "UnsupportedPlatform",
          log |-> <<<<"Installation is not supported for this platform: ", platform>>>>]
    ELSE IF ~hasPackageJson
    THEN [ret |-> NoOpts, err |-> "ManifestMissing",
          log |-> <<<<"Unable to find package.json. ">>>>]
    ELSE LET error == validateConfiguration(packageJson)
         IN  IF Truthy(error)
             THEN [ret |-> NoOpts, err |-> "InvalidManifest",
                   log |-> << <<"Invalid package.json: ">> \o error >>]
             ELSE [ret |-> resolve(arch, platform, packageJson), err |-> "",
                   log |-> <<>>]

\* --------------------------------------------------------------- the state

VARIABLES
    argv,            \* process.argv[2], "" when no command was given
    arch,            \* process.arch
    platform,        \* process.platform
    hasPackageJson,  \* whether ./package.json exists
    packageJson,     \* the parsed manifest
    env,             \* process.env.npm_config_prefix, Undefined when unset
    npmBin,          \* what `npm bin` will answer: [err, stdout]
    fs,              \* directory -> [exists, files]
    fs0,             \* fs as it was when the process started
    pc,              \* "start", "running", "exited"
    exitCode,        \* the process's exit status, -1 while it runs
    uncaught,        \* the exception that ended the process, Undefined if none
    stderr,          \* the lines printed with console.error
    calls,           \* the arguments of the completion callback's invocations
    opts,            \* what parsePackageJson returned
    pipeline,        \* the extraction pipeline created: "none", "targz", "zip"
    fetchState,      \* "none", "pending", "settled"
    status,          \* res.status, 0 before a response
    body,            \* entries of the response body not yet extracted
    ungz,            \* gunzip stage: "none", "open", "flowing", "errored"
    untar,           \* untar stage: "none", "open", "flowing", "ended", "errored"
    unz,             \* unzip stage: "none", "open", "flowing", "closed", "errored"
    execState,       \* the `npm bin` child: "none", "place", "uninstall", "done"
    placing,         \* verifyAndPlaceBinary was entered
    ioLog,           \* the network and filesystem operations performed
    occurred         \* the errors of the taxonomy met so far

inputs == <<argv, arch, platform, hasPackageJson, packageJson, env, npmBin, fs0>>
procVars == <<pc, exitCode, uncaught, stderr, calls>>
streamVars == <<pipeline, fetchState, status, body, ungz, untar, unz>>
vars == <<inputs, procVars, streamVars, fs, opts, execState, placing, ioLog, occurred>>

\* ---------------------------------------------------------- the file system

NoDir == [exists |-> FALSE, files |-> {}]

existsSync(f, dir, name) ==
    f[dir].exists /\ \E x \in f[dir].files : x.name = name

mkdirpSync(f, dir) == [f EXCEPT ![dir].exists = TRUE]

\* A file written into dir under name, replacing one of that name.
writeFile(f, dir, name, gen) ==
    [f EXCEPT ![dir].files =
        {x \in @ : x.name # name} \cup {[name |-> name, gen |-> gen]}]

\* fs.renameSync(join(from, name), join(to, name)): the file leaves `from`
\* and replaces whatever `to` held under that name.
renameSync(f, from, to, name) ==
    LET file == CHOOSE x \in f[from].files : x.name = name
        out == [f EXCEPT ![from].files = @ \ {file}]
    IN  writeFile(out, to, name, file.gen)

\* fs.unlinkSync(join(dir, name)); throws when there is no such file.
unlinkSync(f, dir, name) == [f EXCEPT ![dir].files = {x \in @ : x.name # name}]

rimrafSync(f, dir) == [f EXCEPT ![dir] = NoDir]

\* ------------------------------------------------- the completion callback

INVALID_INPUT == <<"Invalid inputs">>

\* The handler as it would be if it set process.exitCode and returned,
\* instead of calling process.exit.
handler_noExit(err) ==
    IF Truthy(err)
    THEN [printed |-> <<err>>, exit |-> FALSE, code |-> 1]
    ELSE [printed |-> <<>>, exit |-> FALSE, code |-> 0]

\* The handler the script passes to the action (lines 239-246): what it
\* prints and the status it gives process.exit, which ends the process.
handler(err) ==
    IF Truthy(err)
    THEN [printed |-> <<err>>, exit |-> TRUE, code |-> 1]
    ELSE [printed |-> <<>>, exit |-> TRUE, code |-> 0]

\* callback(err), after the step printed `log`.
Callback(err, log) ==
    LET h == handler(err)
    IN  /\ calls' = Append(calls, err)
        /\ stderr' = stderr \o log \o h.printed
        /\ pc' = IF h.exit THEN "exited" ELSE "running"
        /\ exitCode' = h.code
        /\ uncaught' = uncaught

\* An exception nobody catches: node prints it and exits with status 1.
Uncaught(e, log) ==
    /\ calls' = calls
    /\ stderr' = stderr \o log \o <<e>>
    /\ pc' = "exited"
    /\ exitCode' = 1
    /\ uncaught' = e

\* The step returns to the event loop.
Continue(log) ==
    /\ calls' = calls
    /\ stderr' = stderr \o log
    /\ pc' = "running"
    /\ UNCHANGED <<exitCode, uncaught>>

Met(err) == occurred' = occurred \cup (IF err = "" THEN {} ELSE {err})

\* ------------------------------------------------------------ the operations

\* getInstallationPath's exec callback, lines 36-54: the directory it hands
\* to its caller, or the TypeError of dir.replace on a null dir.
getInstallationPath(bin, prefix) ==
    LET dir == IF bin.err \/ ~Truthy(bin.stdout)
               THEN (IF Truthy(prefix) THEN prefix \o <<"bin">> ELSE Null)
               ELSE trim(bin.stdout)
    IN  IF dir = Null
        THEN [threw |-> TRUE, err |-> Null, dir |-> Null]
        ELSE [threw |-> FALSE, err |-> Null, dir |-> normalizeBinDir(dir)]

TypeError == <<"TypeError: Cannot read properties of null (reading 'replace')">>

\* install as it would be if it chose the extractor by the suffix of the
\* manifest's URL template instead of the resolved URL.
install_byTemplate ==
    LET p == parsePackageJson(arch, platform, hasPackageJson, packageJson)
    IN  /\ opts' = p.ret
        /\ Met(p.err)
        /\ IF p.ret = NoOpts
           THEN /\ Callback(INVALID_INPUT, p.log)
                /\ UNCHANGED <<fs, ioLog, streamVars, execState, placing>>
           ELSE /\ fs' = mkdirpSync(fs, p.ret.binPath)
                /\ ioLog' = ioLog \cup {"mkdirp staging", "fetch"}
                /\ IF endsWith(packageJson.goBinary.url, ".tar.gz")
                   THEN /\ pipeline' = "targz"
                        /\ ungz' = "open"
                        /\ untar' = "open"
                        /\ unz' = unz
                   ELSE /\ pipeline' = "zip"
                        /\ unz' = "open"
                        /\ UNCHANGED <<ungz, untar>>
                /\ fetchState' = "pending"
                /\ Continue(p.log)
                /\ UNCHANGED <<status, body, execState, placing>>

\* install, lines 165-206, up to its return.
install ==
    LET p == parsePackageJson(arch, platform, hasPackageJson, packageJson)
    IN  /\ opts' = p.ret
        /\ Met(p.err)
        /\ IF p.ret = NoOpts
           THEN /\ Callback(INVALID_INPUT, p.log)
                /\ UNCHANGED <<fs, ioLog, streamVars, execState, placing>>
           ELSE /\ fs' = mkdirpSync(fs, p.ret.binPath)
                /\ ioLog' = ioLog \cup {"mkdirp staging", "fetch"}
                /\ IF endsWith(p.ret.url, ".tar.gz")
                   THEN /\ pipeline' = "targz"
                        /\ ungz' = "open"
                        /\ untar' = "open"
                        /\ unz' = unz
                   ELSE /\ pipeline' = "zip"
                        /\ unz' = "open"
                        /\ UNCHANGED <<ungz, untar>>
                /\ fetchState' = "pending"
                /\ Continue(p.log)
                /\ UNCHANGED <<status, body, execState, placing>>

\* uninstall, lines 208-211, up to its return: the manifest is parsed and
\* `npm bin` started whatever the parse returned.
uninstall ==
    LET p == parsePackageJson(arch, platform, hasPackageJson, packageJson)
    IN  /\ opts' = p.ret
        /\ Met(p.err)
        /\ execState' = "uninstall"
        /\ ioLog' = ioLog \cup {"exec npm bin"}
        /\ Continue(p.log)
        /\ UNCHANGED <<fs, streamVars, placing>>

actions == {"install", "uninstall"}

\* The script's synchronous run, lines 231-247.
Main ==
    /\ pc = "start"
    /\ UNCHANGED inputs
    /\ IF argv = ""
       THEN /\ pc' = "exited"
            /\ exitCode' = 0
            /\ UNCHANGED <<uncaught, stderr, calls, streamVars, fs, opts,
                           execState, placing, ioLog, occurred>>
       ELSE IF argv \notin actions
       THEN /\ pc' = "exited"
            /\ exitCode' = 1
            /\ UNCHANGED <<uncaught, stderr, calls, streamVars, fs, opts,
                           execState, placing, ioLog, occurred>>
       ELSE IF argv = "install" THEN install ELSE uninstall

\* verifyAndPlaceBinary as it would be if it asked for the installation path
\* first and looked for the binary in the exec callback.
verifyAndPlaceBinary_pathFirst ==
    /\ placing' = TRUE
    /\ execState' = "place"
    /\ ioLog' = ioLog \cup {"exec npm bin"}
    /\ Continue(<<>>)
    /\ Met("")

\* verifyAndPlaceBinary up to its return, lines 60-62.
verifyAndPlaceBinary ==
    /\ placing' = TRUE
    /\ IF ~existsSync(fs, opts.binPath, opts.binName)
       THEN /\ Callback(<<"Downloaded binary does not contain the binary specified in configuration - ">>
                            \o opts.binName, <<>>)
            /\ Met("BinaryNotFoundInArchive")
            /\ UNCHANGED <<execState, ioLog>>
       ELSE /\ execState' = "place"
            /\ ioLog' = ioLog \cup {"exec npm bin"}
            /\ Continue(<<>>)
            /\ Met("")

\* ------------------------------------------------------------ the callbacks

\* The statuses a response is tried with.
Statuses == {200, 204, 404}

\* The entries an archive may hold: the expected binary and two others.
Entries == {<<"README">>, <<"LICENSE">>}

Archives(binName) ==
    {a \in SUBSET (Entries \cup {binName}) : Cardinality(a) <= MaxEntries}

\* The status check as it would be if it asked res.ok: any 2xx passes.
tarStatusFails_2xx(s) == s < 200 \/ s >= 300

\* Line 186: the response is refused.
tarStatusFails(s) == s # 200

\* Line 200: the response is refused.
zipStatusFails(s) == s # 200

DownloadFailed(s) == <<"Error downloading binary. HTTP Status Code: ", ToString(s)>>

TransportError == <<"Error downloading from URL: ">> \o opts.url

\* fetch(...).then on the .tar.gz branch, lines 185-188.
FetchThenTar ==
    /\ pc = "running" /\ pipeline = "targz" /\ fetchState = "pending"
    /\ \E s \in Statuses, a \in Archives(opts.binName) :
        /\ fetchState' = "settled"
        /\ status' = s
        /\ IF tarStatusFails(s)
           THEN /\ Callback(DownloadFailed(s), <<>>)
                /\ Met("DownloadFailed")
                /\ UNCHANGED <<body, ungz, untar>>
           ELSE /\ body' = a
                /\ ungz' = "flowing"
                /\ untar' = "flowing"
                /\ Continue(<<>>)
                /\ Met("")
    /\ UNCHANGED <<inputs, pipeline, unz, fs, opts, execState, placing, ioLog>>

\* fetch(...).catch on the .tar.gz branch, lines 189-191.
FetchCatchTar ==
    /\ pc = "running" /\ pipeline = "targz" /\ fetchState = "pending"
    /\ fetchState' = "settled"
    /\ Callback(TransportError, <<>>)
    /\ Met("DownloadTransportError")
    /\ UNCHANGED <<inputs, pipeline, status, body, ungz, untar, unz, fs, opts,
                   execState, placing, ioLog>>

\* The zip branch as it would be if it verified and placed the binary as
\* soon as the body is piped, without waiting for 'close'.
FetchThenZip_placeOnPipe ==
    /\ pc = "running" /\ pipeline = "zip" /\ fetchState = "pending"
    /\ \E s \in Statuses, a \in Archives(opts.binName) :
        /\ fetchState' = "settled"
        /\ status' = s
        /\ IF s # 200
           THEN /\ Callback(DownloadFailed(s), <<>>)
                /\ Met("DownloadFailed")
                /\ UNCHANGED <<body, unz, execState, placing, ioLog>>
           ELSE /\ body' = a
                /\ unz' = "flowing"
                /\ verifyAndPlaceBinary
    /\ UNCHANGED <<inputs, pipeline, ungz, untar, fs, opts>>

\* fetch(...).then on the zip branch, lines 199-202.
FetchThenZip ==
    /\ pc = "running" /\ pipeline = "zip" /\ fetchState = "pending"
    /\ \E s \in Statuses, a \in Archives(opts.binName) :
        /\ fetchState' = "settled"
        /\ status' = s
        /\ IF zipStatusFails(s)
           THEN /\ Callback(DownloadFailed(s), <<>>)
                /\ Met("DownloadFailed")
                /\ UNCHANGED <<body, unz>>
           ELSE /\ body' = a
                /\ unz' = "flowing"
                /\ Continue(<<>>)
                /\ Met("")
    /\ UNCHANGED <<inputs, pipeline, ungz, untar, fs, opts, execState, placing, ioLog>>

\* fetch(...).catch on the zip branch, lines 203-205.
FetchCatchZip ==
    /\ pc = "running" /\ pipeline = "zip" /\ fetchState = "pending"
    /\ fetchState' = "settled"
    /\ Callback(TransportError, <<>>)
    /\ Met("DownloadTransportError")
    /\ UNCHANGED <<inputs, pipeline, status, body, ungz, untar, unz, fs, opts,
                   execState, placing, ioLog>>

\* The extraction stage writes one entry of the body into the staging
\* directory (tar.extract({cwd}) and unzipper.Extract({path})).
ExtractEntry ==
    /\ pc = "running"
    /\ \/ ungz = "flowing" /\ untar = "flowing"
       \/ unz = "flowing"
    /\ \E e \in body :
        /\ body' = body \ {e}
        /\ fs' = writeFile(fs, opts.binPath, e, "new")
    /\ ioLog' = ioLog \cup {"extract"}
    /\ UNCHANGED <<inputs, procVars, pipeline, fetchState, status, ungz, untar,
                   unz, opts, execState, placing, occurred>>

\* ungz.on('error', callback), line 178.
GunzipError ==
    /\ pc = "running" /\ ungz = "flowing" /\ untar # "ended"
    /\ ungz' = "errored"
    /\ Callback(<<"Error: ", "gunzip">>, <<>>)
    /\ Met("ExtractionError")
    /\ UNCHANGED <<inputs, pipeline, fetchState, status, body, untar, unz, fs,
                   opts, execState, placing, ioLog>>

\* untar.on('error', callback), line 179.
UntarError ==
    /\ pc = "running" /\ untar = "flowing"
    /\ untar' = "errored"
    /\ Callback(<<"Error: ", "untar">>, <<>>)
    /\ Met("ExtractionError")
    /\ UNCHANGED <<inputs, pipeline, fetchState, status, body, ungz, unz, fs,
                   opts, execState, placing, ioLog>>

\* untar.on('end', verifyAndPlaceBinary...), line 183: untar ends once the
\* gunzip stage has handed it the whole body and every entry is written.
UntarEnd ==
    /\ pc = "running" /\ untar = "flowing" /\ ungz = "flowing" /\ body = {}
    /\ untar' = "ended"
    /\ verifyAndPlaceBinary
    /\ UNCHANGED <<inputs, pipeline, fetchState, status, body, ungz, unz, fs, opts>>

\* unz.on('close', verifyAndPlaceBinary...), line 197.
UnzipClose ==
    /\ pc = "running" /\ unz = "flowing" /\ body = {}
    /\ unz' = "closed"
    /\ verifyAndPlaceBinary
    /\ UNCHANGED <<inputs, pipeline, fetchState, status, body, ungz, untar, fs, opts>>

\* An 'error' event of the unzip stage: line 196-197 attach no 'error'
\* listener, so the emitter throws it.
UnzipError ==
    /\ pc = "running" /\ unz = "flowing"
    /\ unz' = "errored"
    /\ Uncaught(<<"Error: ", "unzip">>, <<>>)
    /\ Met("ExtractionError")
    /\ UNCHANGED <<inputs, pipeline, fetchState, status, body, ungz, untar, fs,
                   opts, execState, placing, ioLog>>

\* The placement as it would be without rimraf.sync(binPath).
place_noRimraf(f, binPath, installationPath, binName) ==
    renameSync(f, binPath, installationPath, binName)

\* Lines 66-68: the binary renamed into the installation directory, then the
\* staging directory deleted with all it holds.
place(f, binPath, installationPath, binName) ==
    rimrafSync(renameSync(f, binPath, installationPath, binName), binPath)

ENOENT == <<"Error: ENOENT: no such file or directory, unlink">>

\* The unlink as it would be without the try/catch: a missing file throws.
tryUnlink_noCatch(f, dir, name) ==
    [fs |-> unlinkSync(f, dir, name),
     threw |-> IF existsSync(f, dir, name) THEN Null ELSE ENOENT]

\* Lines 214-218: the unlink inside try/catch.  The file system it leaves
\* and the exception that leaves the block (Null: every one is swallowed).
tryUnlink(f, dir, name) ==
    [fs |-> unlinkSync(f, dir, name), threw |-> Null]

\* The `npm bin` callback for verifyAndPlaceBinary, lines 62-71.
ExecCallbackPlace ==
    /\ pc = "running" /\ execState = "place"
    /\ execState' = "done"
    /\ LET r == getInstallationPath(npmBin, env)
       IN  IF r.threw
           THEN /\ Uncaught(TypeError, <<>>)
                /\ Met("InstallPathUnresolved")
                /\ UNCHANGED <<fs, ioLog>>
           ELSE IF Truthy(r.err)
           THEN /\ Callback(<<"Error getting binary installation path from npm bin">>, <<>>)
                /\ Met("InstallPathUnresolved")
                /\ fs' = mkdirpSync(fs, r.dir)
                /\ ioLog' = ioLog \cup {"mkdirp install"}
           ELSE /\ fs' = place(mkdirpSync(fs, r.dir), opts.binPath, r.dir, opts.binName)
                /\ ioLog' = ioLog \cup {"mkdirp install", "rename", "rimraf"}
                /\ Callback(Null, <<>>)
                /\ Met("")
    /\ UNCHANGED <<inputs, streamVars, opts, placing>>

\* The `npm bin` callback for uninstall, lines 211-221.  opts.binName is
\* read inside the try: with no opts the TypeError is swallowed there.
ExecCallbackUninstall ==
    /\ pc = "running" /\ execState = "uninstall"
    /\ execState' = "done"
    /\ LET r == getInstallationPath(npmBin, env)
       IN  IF r.threw
           THEN /\ Uncaught(TypeError, <<>>)
                /\ Met("InstallPathUnresolved")
                /\ UNCHANGED <<fs, ioLog>>
           ELSE IF Truthy(r.err)
           THEN /\ Callback(<<"Error finding binary installation directory">>, <<>>)
                /\ Met("InstallPathUnresolved")
                /\ fs' = mkdirpSync(fs, r.dir)
                /\ ioLog' = ioLog \cup {"mkdirp install"}
           ELSE IF opts = NoOpts
           THEN /\ fs' = mkdirpSync(fs, r.dir)
                /\ ioLog' = ioLog \cup {"mkdirp install"}
                /\ Callback(Null, <<>>)
                /\ Met("")
           ELSE LET t == tryUnlink(mkdirpSync(fs, r.dir), r.dir, opts.binName)
                IN  /\ fs' = t.fs
                    /\ ioLog' = ioLog \cup {"mkdirp install", "unlink"}
                    /\ IF t.threw # Null
                       THEN Uncaught(t.threw, <<>>)
                       ELSE Callback(Null, <<>>)
                    /\ Met("")
    /\ UNCHANGED <<inputs, streamVars, opts, placing>>

Next ==
    \/ Main
    \/ FetchThenTar
    \/ FetchCatchTar
    \/ FetchThenZip
    \/ FetchCatchZip
    \/ ExtractEntry
    \/ GunzipError
    \/ UntarError
    \/ UntarEnd
    \/ UnzipClose
    \/ UnzipError
    \/ ExecCallbackPlace
    \/ ExecCallbackUninstall

\* ---------------------------------------------------------------- the runs

StagingDir == <<".", "bin">>
ProjectBin == <<"/proj", "node_modules", ".bin">>
NestedBin == <<"/proj", "node_modules", "dep", "node_modules", ".bin">>
Prefix == <<"/usr/local">>
PrefixBin == Prefix \o <<"bin">>
Dirs == {StagingDir, ProjectBin, NestedBin, PrefixBin}

Name == <<"mytool">>
BinNames == {Name, Name \o <<".exe">>}
Other == <<"npm">>

UrlTar ==
    <<"https://example.test/">> \o Token("bin_name") \o <<"-">>
        \o Token("platform") \o <<"-">> \o Token("arch") \o <<"-">>
        \o Token("version") \o <<".tar.gz">>
UrlZip == <<"https://example.test/">> \o Token("bin_name") \o <<".zip">>

GoObject(n, p, u) == [t |-> "object", name |-> n, path |-> p, url |-> u]
GoOther(t) == [t |-> t, name |-> Undefined, path |-> Undefined, url |-> Undefined]

ValidTar == [version |-> <<"v", "1.0.0">>, goBinary |-> GoObject(Name, StagingDir, UrlTar)]
ValidZip == [version |-> <<"1.0.0">>, goBinary |-> GoObject(Name, StagingDir, UrlZip)]

\* One manifest per way of failing validation, and two valid ones.
Manifests ==
    {ValidTar, ValidZip,
     [ValidTar EXCEPT !.version = Undefined],
     [ValidTar EXCEPT !.goBinary = GoOther("undefined")],
     [ValidTar EXCEPT !.goBinary = GoOther("string")],
     [ValidTar EXCEPT !.goBinary.name = Undefined],
     [ValidTar EXCEPT !.goBinary.path = Undefined],
     [ValidZip EXCEPT !.goBinary.url = Undefined]}

\* Every combination of present, empty and absent fields.
AllManifests ==
    [version : {Undefined, Null, <<>>, <<"v", "1.0.0">>, <<"1.0.0">>},
     goBinary : {GoOther(t) : t \in {"undefined", "null", "string"}}
                \cup {GoObject(n, p, u) : n \in {Undefined, <<>>, Name},
                                          p \in {Undefined, <<>>, StagingDir},
                                          u \in {Undefined, <<>>, UrlTar, UrlZip}}]

NpmBinAnswers ==
    {[err |-> TRUE, stdout |-> <<>>],
     [err |-> FALSE, stdout |-> <<>>],
     [err |-> FALSE, stdout |-> ProjectBin \o <<"\n">>],
     [err |-> FALSE, stdout |-> NestedBin \o <<"\n">>]}

\* The staging directory before the run: absent, empty, or holding the
\* binaries a previous run left behind.
Stagings ==
    {NoDir, [exists |-> TRUE, files |-> {}],
     [exists |-> TRUE, files |-> {[name |-> n, gen |-> "stale"] : n \in BinNames}]}

\* An installation directory before the run: absent, holding another
\* package's file, or holding that and an earlier installation's binaries.
Installs ==
    {NoDir, [exists |-> TRUE, files |-> {[name |-> Other, gen |-> "installed"]}],
     [exists |-> TRUE,
      files |-> {[name |-> n, gen |-> "installed"] : n \in BinNames \cup {Other}}]}

InitWith(cmds, archs, platforms, manifests, answers, prefixes, stagings, installs) ==
    /\ argv \in cmds
    /\ arch \in archs
    /\ platform \in platforms
    /\ \E m \in manifests :
        /\ hasPackageJson = m[1]
        /\ packageJson = m[2]
    /\ env \in prefixes
    /\ npmBin \in answers
    /\ \E st \in stagings, in \in installs :
        fs0 = [d \in Dirs |-> IF d = StagingDir THEN st
                              ELSE IF d = NestedBin THEN NoDir ELSE in]
    /\ fs = fs0
    /\ pc = "start"
    /\ exitCode = -1
    /\ uncaught = Undefined
    /\ stderr = <<>>
    /\ calls = <<>>
    /\ opts = NoOpts
    /\ pipeline = "none"
    /\ fetchState = "none"
    /\ status = 0
    /\ body = {}
    /\ ungz = "none"
    /\ untar = "none"
    /\ unz = "none"
    /\ execState = "none"
    /\ placing = FALSE
    /\ ioLog = {}
    /\ occurred = {}

\* The runs of the script on the platforms node reports.
Init ==
    InitWith({"install", "uninstall", "help", ""},
             {"x64", "mips"}, {"linux", "win32", "sunos"},
             {<<FALSE, ValidTar>>} \cup {<<TRUE, m>> : m \in Manifests},
             NpmBinAnswers, {Undefined, Prefix}, Stagings, Installs)

Spec == Init /\ [][Next]_vars

\* The runs over every architecture and platform name, the names an object
\* literal inherits among them.
InitResolver ==
    InitWith({"install", "uninstall"},
             {"ia32", "x64", "arm", "arm64", "mips", "constructor", "toString"},
             {"darwin", "linux", "win32", "freebsd", "sunos", "constructor", "toString"},
             {<<TRUE, ValidTar>>},
             {x \in NpmBinAnswers : ~x.err}, {Undefined}, {NoDir}, {NoDir})

SpecResolver == InitResolver /\ [][Next]_vars

\* The runs over every manifest.
InitValidator ==
    InitWith({"install", "uninstall"}, {"x64"}, {"linux", "win32"},
             {<<TRUE, m>> : m \in AllManifests},
             {x \in NpmBinAnswers : ~x.err}, {Undefined}, {NoDir}, {NoDir})

SpecValidator == InitValidator /\ [][Next]_vars

\* What a URL template is put together from: the four placeholders, braces
\* that belong to no placeholder, the archive suffix and plain text.
Pieces ==
    {Token("arch"), Token("platform"), Token("version"), Token("bin_name"),
     <<"{", "{">>, <<"}", "}">>, <<".tar.gz">>, <<"/">>}

MaxPieces == 3

RECURSIVE TemplatesOf(_)
TemplatesOf(n) ==
    IF n = 0 THEN {<<>>}
    ELSE {t \o q : t \in TemplatesOf(n - 1), q \in Pieces}

\* The URL templates of one to MaxPieces pieces.
Templates == UNION {TemplatesOf(n) : n \in 1..MaxPieces}

\* Versions and binary names a manifest may carry: plain ones, ones that
\* spell a placeholder or its name, and ones with a dollar pattern of replace.
Versions ==
    {<<"v", "1.0.0">>, <<"arch">>, Token("bin_name"), <<"$&">>, <<".tar.gz">>}
Names == {Name, Token("arch"), <<"$$">>}

\* The synchronous run of install over the URL templates, on linux and win32.
InitTemplater ==
    InitWith({"install"}, {"x64"}, {"linux", "win32"},
             {<<TRUE, [version |-> v, goBinary |-> GoObject(n, StagingDir, u)]>> :
                  v \in Versions, n \in Names, u \in Templates},
             {[err |-> FALSE, stdout |-> ProjectBin \o <<"\n">>]},
             {Undefined}, {NoDir}, {NoDir})

SpecTemplater == InitTemplater /\ [][Main]_vars

\* -------------------------------------------------------------- the claims

InstallDirs == Dirs \ {StagingDir}

\* C1: the completion callback passed to install or uninstall is invoked at
\* most once in a run, whatever the order of the events.
C1_CallbackAtMostOnce == Len(calls) <= 1

\* The callback was invoked for a gunzip error while the untar stage, which
\* holds the same callback for 'error' and 'end', was still open.
C1_Witness ==
    /\ Len(calls) = 1
    /\ pipeline = "targz"
    /\ ungz = "errored"
    /\ untar = "flowing"

\* C2: a response whose status is not 200 is reported to the callback as a
\* download failure carrying that status, and from then on nothing in an
\* installation directory changes, on either branch.
C2_Non200Aborts ==
    status \notin {0, 200} =>
        /\ calls = <<DownloadFailed(status)>>
        /\ \A d \in InstallDirs : fs[d] = fs0[d]

\* A 404 on the zip branch, reported, with the process ended.
C2_Witness ==
    /\ status = 404
    /\ pipeline = "zip"
    /\ pc = "exited"
    /\ calls = <<DownloadFailed(404)>>

\* C3: verifyAndPlaceBinary is entered, and the rename and the deletion of
\* the staging directory happen, only once the extraction stage of the
\* branch taken has signalled completion, after a 200 body was piped into
\* it and wholly extracted.
C3_PlaceAfterExtraction ==
    /\ placing =>
        /\ status = 200
        /\ body = {}
        /\ \/ pipeline = "targz" /\ untar = "ended" /\ ungz = "flowing"
           \/ pipeline = "zip" /\ unz = "closed"
    /\ (argv = "install" /\ ioLog \cap {"exec npm bin", "rename", "rimraf"} # {})
          => placing

\* The binary was placed on the zip branch after 'close'.
C3_Witness ==
    /\ placing
    /\ pipeline = "zip"
    /\ unz = "closed"
    /\ "rename" \in ioLog

\* No installation path can be determined: the query failed or answered
\* nothing, and npm_config_prefix is unset.
PathUnresolved == (npmBin.err \/ npmBin.stdout = <<>>) /\ env = Undefined

\* The directory the installation path resolves to otherwise.
ExpectedDir ==
    IF npmBin.err \/ npmBin.stdout = <<>> THEN PrefixBin ELSE ProjectBin

\* The binary's file name on this platform.
ExpectedBin == IF platform = "win32" THEN Name \o <<".exe">> ELSE Name

SupportedArchs == {"ia32", "x64", "arm", "arm64"}
SupportedPlatforms == {"darwin", "linux", "win32", "freebsd"}

\* The five requirements on a manifest, in the order they are checked.
Requirements(m) ==
    <<m.version \notin {Undefined, Null, <<>>},
      m.goBinary.t = "object",
      m.goBinary.name \notin {Undefined, Null, <<>>},
      m.goBinary.path \notin {Undefined, Null, <<>>},
      m.goBinary.url \notin {Undefined, Null, <<>>}>>

Failing(m) == {i \in 1..5 : ~Requirements(m)[i]}

ValidManifest == hasPackageJson /\ Failing(packageJson) = {}

\* C4 as claimed: when no installation path can be determined, once the
\* npm bin callback has run the completion callback has received an error,
\* and no file was moved or deleted.
C4_UnresolvedPathReported ==
    (PathUnresolved /\ execState = "done") =>
        /\ Len(calls) = 1
        /\ Truthy(calls[1])
        /\ ioLog \cap {"rename", "unlink", "rimraf"} = {}

\* C5 as claimed: with a manifest that fails validation, or an architecture
\* or platform outside the tables, install and uninstall issue no request
\* and perform no filesystem action.
C5_RejectedBeforeAnyIO ==
    (/\ argv \in actions
     /\ \/ arch \notin SupportedArchs
        \/ platform \notin SupportedPlatforms
        \/ hasPackageJson /\ Failing(packageJson) # {})
        => (ioLog = {} /\ fs = fs0)

Taxonomy ==
    {"UnsupportedPlatform", "UnsupportedArchitecture", "InvalidManifest",
     "DownloadFailed", "DownloadTransportError", "ExtractionError",
     "BinaryNotFoundInArchive", "InstallPathUnresolved"}

\* C6 as claimed: a run of install or uninstall that met an error of the
\* taxonomy ends with the handler having received a non-empty error and
\* exit status 1, and exit status 0 is reached only with no such error.
C6_ErrorsExitOne ==
    (argv \in actions /\ pc = "exited") =>
        /\ (occurred \cap Taxonomy # {}) =>
              /\ Len(calls) >= 1
              /\ Truthy(calls[Len(calls)])
              /\ exitCode = 1
        /\ exitCode = 0 => occurred \cap Taxonomy = {}

ExpectedArch ==
    [a \in SupportedArchs |->
        IF a = "ia32" THEN "386" ELSE IF a = "x64" THEN "amd64"
        ELSE IF a = "arm" THEN "armv6" ELSE "arm64"]

ExpectedPlatform ==
    [q \in SupportedPlatforms |-> IF q = "win32" THEN "windows" ELSE q]

\* C9 as claimed: parsePackageJson yields an install spec exactly for the
\* four architectures and the four platforms of the tables, with their
\* vendor names in the resolved URL, and rejects every other name.
C9_OnlyTheTablesAccepted ==
    (argv \in actions /\ pc # "start" /\ ValidManifest) =>
        /\ opts # NoOpts <=>
              (arch \in SupportedArchs /\ platform \in SupportedPlatforms)
        /\ (/\ packageJson = ValidTar
            /\ arch \in SupportedArchs /\ platform \in SupportedPlatforms) =>
              /\ opts.url[Len(opts.url) - 3] = ExpectedArch[arch]
              /\ opts.url[Len(opts.url) - 5] = ExpectedPlatform[platform]

\* The reason given for each requirement.
ReasonText ==
    <<"'version' property must be specified",
      "'goBinary' property must be defined and be an object",
      "'name' property is necessary",
      "'path' property is necessary",
      "'url' property is required">>

InvalidLines ==
    {k \in 1..Len(stderr) : stderr[k][1] = "Invalid package.json: "}

\* C10: on a supported platform the validator's answer is the reason of the
\* first requirement that fails, in the order version, goBinary, name, path,
\* url, the five reasons being distinct and one at most being given; it
\* gives none exactly when the five requirements hold.
C10_FirstFailingRequirement ==
    /\ \A i, j \in 1..5 : i # j => ReasonText[i] # ReasonText[j]
    /\ (argv \in actions /\ pc # "start" /\ hasPackageJson
        /\ arch \in SupportedArchs /\ platform \in SupportedPlatforms) =>
          IF Failing(packageJson) = {}
          THEN InvalidLines = {} /\ opts # NoOpts
          ELSE LET i == CHOOSE x \in Failing(packageJson) :
                            \A y \in Failing(packageJson) : x <= y
               IN  /\ InvalidLines = {1}
                   /\ stderr[1] = <<"Invalid package.json: ", ReasonText[i]>>
                   /\ opts = NoOpts

\* A manifest lacking both name and url was refused for its name.
C10_Witness ==
    /\ pc # "start"
    /\ Failing(packageJson) = {3, 5}
    /\ stderr[1] = <<"Invalid package.json: ", "'name' property is necessary">>

\* C11 as claimed: on win32 every valid manifest resolves to a binary name
\* ending in ".exe", and a URL template ending in ".tar.gz", however often
\* ".tar.gz" occurs in it, resolves to a URL ending in ".zip" and install
\* takes the zip branch.
C11_WindowsGetsZip ==
    (argv = "install" /\ pc # "start" /\ platform = "win32" /\ ValidManifest) =>
        /\ opts # NoOpts
        /\ endsWith(opts.binName, ".exe")
        /\ endsWith(packageJson.goBinary.url, ".tar.gz") =>
              /\ endsWith(opts.url, ".zip")
              /\ pipeline = "zip"

\* The four placeholders and the value each is replaced by.
Placeholders == {"arch", "platform", "version", "bin_name"}

ValueOf(name) ==
    IF name = "arch" THEN Replacement(ARCH_MAPPING, arch, Token("arch"))
    ELSE IF name = "platform"
    THEN Replacement(PLATFORM_MAPPING, platform, Token("platform"))
    ELSE IF name = "version" THEN opts.version
    ELSE opts.binName

\* The orders the four substitutions can be applied in.
Orders == {o \in [1..4 -> Placeholders] : \A i, j \in 1..4 : o[i] = o[j] => i = j}

\* The template the substitutions start from: the manifest's, after the
\* Windows rewrite.
Rewritten ==
    IF platform = "win32" /\ endsWith(packageJson.goBinary.url, ".tar.gz")
    THEN ReplaceFirst(packageJson.goBinary.url, ".tar.gz", <<".zip">>)
    ELSE packageJson.goBinary.url

\* The four global replacements applied in the order o.
SubstitutedIn(o) ==
    LET S(u, n) == ReplaceAll(u, Token(n), ValueOf(n))
    IN  S(S(S(S(Rewritten, o[1]), o[2]), o[3]), o[4])

Contains(s, token) ==
    \E i \in 1..(Len(s) - Len(token) + 1) : SubSeq(s, i, i + Len(token) - 1) = token

OrderFreeAndComplete ==
    /\ \A o \in Orders : SubstitutedIn(o) = opts.url
    /\ \A n \in Placeholders : ~Contains(opts.url, Token(n))

\* C12 as claimed: for every URL template and every choice of substitution
\* values the resolved URL is the same in whichever order the four
\* substitutions are applied, and no placeholder token is left in it.
C12_AnyOrderNoTokenLeft ==
    (pc # "start" /\ opts # NoOpts) => OrderFreeAndComplete

\* A value free of braces and of dollar signs.
Plain(v) == \A i \in 1..Len(v) : v[i] \notin {"{", "}", "$&", "$$"}

\* A template whose braces all belong to placeholder tokens.
BracesOnlyInTokens(t) ==
    LET starts == {i \in 1..Len(t) : \E n \in Placeholders :
                       i + 4 <= Len(t) /\ SubSeq(t, i, i + 4) = Token(n)}
    IN  \A k \in 1..Len(t) :
            t[k] \in {"{", "}"} => \E i \in starts : i <= k /\ k <= i + 4

\* C12 amended: when the version and the binary name hold no brace and no
\* dollar sign and every brace of the template belongs to a placeholder
\* token, the resolved URL is the same in whichever order the four
\* substitutions are applied and no placeholder token is left in it.
C12_AnyOrderForPlainValues ==
    (/\ pc # "start" /\ opts # NoOpts
     /\ arch \in SupportedArchs /\ platform \in SupportedPlatforms
     /\ Plain(opts.version) /\ Plain(opts.binName)
     /\ BracesOnlyInTokens(packageJson.goBinary.url)) => OrderFreeAndComplete

\* A template with two placeholders, one of them twice, resolved.
C12_Witness ==
    /\ pc # "start"
    /\ packageJson.goBinary.url
           = Token("bin_name") \o Token("version") \o Token("bin_name")
    /\ packageJson.version = <<"v", "1.0.0">>
    /\ packageJson.goBinary.name = Name
    /\ platform = "linux"
    /\ opts.url = <<"mytool", "1.0.0", "mytool">>

\* C13 as claimed: an error of the extraction stage, gunzip or untar on the
\* .tar.gz branch and unzip on the zip branch, is handed to the completion
\* callback, and no file has been moved.
C13_ExtractionErrorsReported ==
    /\ ungz = "errored" =>
          calls = <<<<"Error: ", "gunzip">>>> /\ "rename" \notin ioLog
    /\ untar = "errored" =>
          calls = <<<<"Error: ", "untar">>>> /\ "rename" \notin ioLog
    /\ unz = "errored" =>
          calls = <<<<"Error: ", "unzip">>>> /\ "rename" \notin ioLog

BinaryNotFound ==
    <<"Downloaded binary does not contain the binary specified in configuration - ">>
        \o ExpectedBin

\* C14: when extraction completes and the staging directory does not hold
\* the expected binary, the step that verifies reports the binary-not-found
\* error naming the file and changes nothing else: the installation path is
\* not asked for or created, no file is renamed, the staging directory and
\* what it holds stay.
C14_NotFoundChangesNothing ==
    [][(~placing /\ placing' /\ ~existsSync(fs, StagingDir, ExpectedBin)) =>
          /\ calls' = <<BinaryNotFound>>
          /\ fs' = fs
          /\ fs'[StagingDir].exists
          /\ ioLog' \cap {"exec npm bin", "mkdirp install", "rename", "rimraf"} = {}
          /\ execState' = "none"]_vars

\* The binary was not in the archive: the error is reported and the staging
\* directory still holds the entry that was extracted.
C14_Witness ==
    /\ placing
    /\ calls = <<BinaryNotFound>>
    /\ ~existsSync(fs, StagingDir, ExpectedBin)
    /\ [name |-> <<"README">>, gen |-> "new"] \in fs[StagingDir].files
    /\ "exec npm bin" \notin ioLog

\* A stream the response body has been piped into.
Piped(stream) == stream \notin {"none", "open"}

\* C15: an install whose manifest resolves creates exactly one extraction
\* pipeline, gunzip and untar if the resolved URL ends with ".tar.gz" and
\* the zip extractor otherwise, and the body is piped into an extractor of
\* that pipeline only, and only when the status is 200.
C15_OnePipelineByResolvedSuffix ==
    (argv = "install" /\ pc # "start" /\ opts # NoOpts) =>
        /\ pipeline = (IF endsWith(opts.url, ".tar.gz") THEN "targz" ELSE "zip")
        /\ pipeline = "targz" => ungz # "none" /\ untar # "none" /\ unz = "none"
        /\ pipeline = "zip" => unz # "none" /\ ungz = "none" /\ untar = "none"
        /\ (Piped(ungz) \/ Piped(untar) \/ Piped(unz) \/ "extract" \in ioLog) =>
              status = 200

\* On win32 a ".tar.gz" template went to the zip extractor, which received
\* the body of a 200 response.
C15_Witness ==
    /\ argv = "install"
    /\ platform = "win32"
    /\ packageJson = ValidTar
    /\ endsWith(opts.url, ".zip")
    /\ pipeline = "zip"
    /\ unz = "flowing"
    /\ "extract" \in ioLog
    /\ status = 200

\* C16 as claimed: every install and every uninstall invocation invokes the
\* completion callback, whichever path it takes.  The process ends for good
\* when it exits, so the callback has then been invoked.
C16_NoExitWithoutCallback ==
    (argv \in actions /\ pc = "exited") => Len(calls) >= 1

=============================================================================
